---- MODULE Spec2Model ----
(***************************************************************************)
(* Storage and cache layer of the photo gallery designer.                  *)
(*                                                                         *)
(*   - GalleryStorage   : the legacy store on localStorage                 *)
(*   - IndexedDBStorage : the indexed store (galleries, imageCache) and    *)
(*                        the migration from localStorage                  *)
(*   - PhotoCanvas      : the cache write path (setCachedImage,            *)
(*                        processImage) and the editor's save              *)
(*                                                                         *)
(* Sizes are abstract units: one unit per placed photo, per library entry, *)
(* per thumbnail payload and per document envelope.  Times are epoch       *)
(* milliseconds counted from a session start T0 that lies a little more    *)
(* than seven days after the epoch, so that every boundary timestamp is    *)
(* a natural number.                                                       *)
(***************************************************************************)
EXTENDS Integers, Sequences, FiniteSets, TLC

\* ------------------------------------------------------------------------
\* Bounds of the model
\* ------------------------------------------------------------------------
LsQuota == 27          \* capacity of localStorage, in size units
MaxTicks == 1          \* how far the clock may advance during a run
IdbQuota == 8          \* capacity of the IndexedDB origin, in size units
MaxMigrateRuns == 2    \* calls of migrateFromLocalStorage in a session
EditorPhotoLens == {0, 4}
MaxTasks == 2          \* processImage calls in a session
MaxEdits == 2          \* edits made in the editor
MaxSaves == 3          \* saves the editor starts
MaxWaits == 4          \* steps of ElapseMs the clock advances
ElapseMs == 500        \* one step of the clock while the editor is open
MaxCallers == 3        \* store operations started before the database is open

\* ------------------------------------------------------------------------
\* Program constants
\* ------------------------------------------------------------------------
GALLERY_STORAGE_PREFIX == "photo-gallery-"
GALLERY_LIST_KEY == "photo-gallery-list"
MAX_IMAGE_SIZE == 2048
THUMBNAIL_SIZE == 200
CACHE_PREFIX == "photo-gallery-cache-"
AutoSaveDelayMs == 1000
maxRetries == 3
CACHE_EXPIRY_DAYS == 3
MsPerDay == 86400000
MaxCanvasPhotos == 20
DefaultMaxAgeMs == 604800000

T0 == DefaultMaxAgeMs + 2

\* ------------------------------------------------------------------------
\* Values
\* ------------------------------------------------------------------------
GalleryIds == {"gallery-1", "gallery-2"}
LegacyCacheKeys == {CACHE_PREFIX \o "a.jpg-10-1", CACHE_PREFIX \o "b.jpg-20-2"}

\* A Date object, and the ISO string JSON.stringify turns it into.
DateOf(t) == [repr |-> "Date", t |-> t]
DateToJSON(d) == [repr |-> "string", t |-> d.t]
NewDateFrom(d) == [repr |-> "Date", t |-> d.t]

Photos(n) == [i \in 1..n |-> i]
LibraryEntry(thumb) == [id |-> "img", thumbnailUrl |-> thumb]

Merge(f, g) == [x \in (DOMAIN f) \cup (DOMAIN g) |-> IF x \in DOMAIN f THEN f[x] ELSE g[x]]
EmptyStorage == [x \in {} |-> 0]

StartsWith(s, p) == Len(s) >= Len(p) /\ SubSeq(s, 1, Len(p)) = p

RECURSIVE Perms(_)
Perms(S) ==
    IF S = {} THEN {<<>>}
    ELSE UNION {{<<x>> \o p : p \in Perms(S \ {x})} : x \in S}

\* JSON.stringify of a gallery / of a listing: dates become strings.
StringifyGallery(g) ==
    [g EXCEPT !.createdAt = DateToJSON(@), !.updatedAt = DateToJSON(@)]
StringifyList(items) ==
    [i \in 1..Len(items) |->
        [items[i] EXCEPT !.createdAt = DateToJSON(@), !.updatedAt = DateToJSON(@)]]

\* ------------------------------------------------------------------------
\* localStorage: a map from keys to stored texts, with a capacity
\* ------------------------------------------------------------------------
CountThumbs(lib) == Cardinality({i \in 1..Len(lib) : lib[i].thumbnailUrl})
PreviewSize(m) == IF m.previewThumbnail THEN 1 ELSE 0
ListItemSize(it) == 1 + PreviewSize(it.metadata)
CacheEntrySize == 2

RECURSIVE ListSize(_)
ListSize(items) ==
    IF items = <<>> THEN 0 ELSE ListItemSize(Head(items)) + ListSize(Tail(items))

ValueSize(v) ==
    CASE v.kind = "gallery" ->
            1 + Len(v.doc.photos) + Len(v.doc.imageLibrary)
              + CountThumbs(v.doc.imageLibrary) + PreviewSize(v.doc.metadata)
      [] v.kind = "list" -> ListSize(v.items)
      [] v.kind = "cache" -> CacheEntrySize

RECURSIVE StorageUsedOver(_, _)
StorageUsedOver(ls, keys) ==
    IF keys = {} THEN 0
    ELSE LET k == CHOOSE x \in keys : TRUE
         IN ValueSize(ls[k]) + StorageUsedOver(ls, keys \ {k})

StorageUsed(ls) == StorageUsedOver(ls, DOMAIN ls)

RemoveItem(ls, k) == [x \in (DOMAIN ls) \ {k} |-> ls[x]]

\* localStorage.setItem: throws QuotaExceededError (ok = FALSE) when the
\* new text does not fit, otherwise replaces the text under the key.
SetItem(ls, k, v) ==
    IF StorageUsed(RemoveItem(ls, k)) + ValueSize(v) > LsQuota
    THEN [ok |-> FALSE, ls |-> ls]
    ELSE [ok |-> TRUE,
          ls |-> [x \in (DOMAIN ls) \cup {k} |-> IF x = k THEN v ELSE ls[x]]]

DocKey(id) == GALLERY_STORAGE_PREFIX \o id

\* ------------------------------------------------------------------------
\* GalleryStorage (legacy store)
\* ------------------------------------------------------------------------
getGalleryList(ls) ==
    IF GALLERY_LIST_KEY \notin DOMAIN ls THEN <<>>
    ELSE LET items == ls[GALLERY_LIST_KEY].items IN
         [i \in 1..Len(items) |->
            [items[i] EXCEPT !.createdAt = NewDateFrom(@), !.updatedAt = NewDateFrom(@)]]

\* The write error is caught and logged: the listing keeps its old text.
saveGalleryList(ls, galleries) ==
    LET r == SetItem(ls, GALLERY_LIST_KEY,
                     [kind |-> "list", items |-> StringifyList(galleries)])
    IN IF r.ok THEN r.ls ELSE ls

loadGallery(ls, galleryId) ==
    IF DocKey(galleryId) \notin DOMAIN ls THEN [found |-> FALSE]
    ELSE LET g == ls[DocKey(galleryId)].doc IN
         [found |-> TRUE,
          gallery |-> [g EXCEPT !.createdAt = NewDateFrom(@),
                                !.updatedAt = NewDateFrom(@)]]

ListItemOf(gallery) ==
    [id |-> gallery.id, name |-> gallery.name,
     createdAt |-> gallery.createdAt, updatedAt |-> gallery.updatedAt,
     metadata |-> gallery.metadata]

UpsertListItem(galleries, listItem) ==
    IF \E i \in 1..Len(galleries) : galleries[i].id = listItem.id
    THEN LET existingIndex ==
                CHOOSE i \in 1..Len(galleries) :
                    /\ galleries[i].id = listItem.id
                    /\ \A j \in 1..(i - 1) : galleries[j].id # listItem.id
         IN [galleries EXCEPT ![existingIndex] = listItem]
    ELSE Append(galleries, listItem)

\* One pass through the body of the try block of saveGallery: the document
\* write may throw, the listing write may not.
WriteGallery(ls, gallery) ==
    LET r == SetItem(ls, DocKey(gallery.id),
                     [kind |-> "gallery", doc |-> StringifyGallery(gallery)])
    IN IF ~r.ok THEN [ok |-> FALSE, ls |-> ls]
       ELSE [ok |-> TRUE,
             ls |-> saveGalleryList(r.ls,
                        UpsertListItem(getGalleryList(r.ls), ListItemOf(gallery)))]

IsCacheKey(k) == StartsWith(k, CACHE_PREFIX)

\* Stable sort of cache keys by timestamp, oldest first.
RECURSIVE InsertByTimestamp(_, _, _)
InsertByTimestamp(sorted, k, ls) ==
    IF sorted = <<>> THEN <<k>>
    ELSE IF ls[Head(sorted)].timestamp <= ls[k].timestamp
         THEN <<Head(sorted)>> \o InsertByTimestamp(Tail(sorted), k, ls)
         ELSE <<k>> \o sorted

RECURSIVE SortByTimestamp(_, _)
SortByTimestamp(keys, ls) ==
    IF keys = <<>> THEN <<>>
    ELSE InsertByTimestamp(SortByTimestamp(SubSeq(keys, 1, Len(keys) - 1), ls),
                           keys[Len(keys)], ls)

RECURSIVE RemoveAll(_, _)
RemoveAll(ls, keys) ==
    IF keys = {} THEN ls
    ELSE LET k == CHOOSE x \in keys : TRUE IN RemoveAll(RemoveItem(ls, k), keys \ {k})

\* A record without a timestamp is stored with timestamp 0.
IsExpiredLegacy(rec, now) ==
    IF rec.timestamp # 0
    THEN (now - rec.timestamp) > CACHE_EXPIRY_DAYS * MsPerDay
    ELSE TRUE

ExpiredKeys(ls, now) ==
    {k \in DOMAIN ls : IsCacheKey(k) /\ IsExpiredLegacy(ls[k], now)}

\* ord is the order in which localStorage.key(i) enumerates the cache keys.
OldestHalf(ls, ord) ==
    LET cacheKeys == SelectSeq(ord, LAMBDA k : k \in DOMAIN ls /\ IsCacheKey(k))
        sorted == SortByTimestamp(cacheKeys, ls)
        toRemove == (Len(cacheKeys) + 1) \div 2
    IN {sorted[i] : i \in 1..toRemove}

clearOldCacheEntries(ls, now, ord) ==
    LET afterExpiry == RemoveAll(ls, ExpiredKeys(ls, now))
    IN RemoveAll(afterExpiry, OldestHalf(afterExpiry, ord))

\* A full clear that removes every key of the app.
clearAllCacheAnyAppKey(ls) ==
    RemoveAll(ls, {k \in DOMAIN ls : StartsWith(k, GALLERY_STORAGE_PREFIX)})

clearAllCache(ls) == RemoveAll(ls, {k \in DOMAIN ls : IsCacheKey(k)})

optimizeGalleryData(gallery) ==
    [gallery EXCEPT
        !.imageLibrary = [i \in 1..Len(@) |-> [@[i] EXCEPT !.thumbnailUrl = FALSE]],
        !.photos = IF Len(@) > MaxCanvasPhotos THEN SubSeq(@, 1, MaxCanvasPhotos) ELSE @,
        !.metadata = [@ EXCEPT !.previewThumbnail = FALSE]]

\* Mutation of RemediationStep: the full clear runs before the expiry clear.
RemediationStepSwapped(ls, gallery, retryAttempt, now, ord) ==
    IF retryAttempt = 1
    THEN [ls |-> clearAllCache(ls), gallery |-> gallery, event |-> "clearAll"]
    ELSE IF retryAttempt = 2
    THEN [ls |-> clearOldCacheEntries(ls, now, ord), gallery |-> gallery,
          event |-> "clearOld"]
    ELSE [ls |-> ls, gallery |-> optimizeGalleryData(gallery), event |-> "optimize"]

\* The remediation run at the start of loop pass number retryAttempt.
RemediationStep(ls, gallery, retryAttempt, now, ord) ==
    IF retryAttempt = 1
    THEN [ls |-> clearOldCacheEntries(ls, now, ord), gallery |-> gallery,
          event |-> "clearOld"]
    ELSE IF retryAttempt = 2
    THEN [ls |-> clearAllCache(ls), gallery |-> gallery, event |-> "clearAll"]
    ELSE [ls |-> ls, gallery |-> optimizeGalleryData(gallery), event |-> "optimize"]

\* Mutation of RetryLoop: the loop keeps going after a retry has succeeded
\* and gives up one pass early.
RECURSIVE RetryLoopEager(_, _, _, _, _, _)
RetryLoopEager(ls, gallery, prev, trace, now, ord) ==
    LET retryAttempt == prev + 1
        step == RemediationStep(ls, gallery, retryAttempt, now, ord)
        w == WriteGallery(step.ls, step.gallery)
        ev == IF w.ok THEN "write_ok" ELSE "write_fail"
    IN IF retryAttempt = maxRetries - 1
       THEN [ls |-> w.ls, gallery |-> step.gallery,
             result |-> IF w.ok THEN "ok" ELSE "storage_full",
             trace |-> trace \o <<step.event, ev>> \o
                       (IF w.ok THEN <<>> ELSE <<"fatal">>)]
       ELSE RetryLoopEager(w.ls, step.gallery, retryAttempt,
                           trace \o <<step.event, ev>>, now, ord)

\* The while loop of the quota branch.  prev is the number of passes done.
RECURSIVE RetryLoop(_, _, _, _, _, _)
RetryLoop(ls, gallery, prev, trace, now, ord) ==
    LET retryAttempt == prev + 1
        step == RemediationStep(ls, gallery, retryAttempt, now, ord)
        w == WriteGallery(step.ls, step.gallery)
    IN IF w.ok
       THEN [ls |-> w.ls, gallery |-> step.gallery, result |-> "ok",
             trace |-> trace \o <<step.event, "write_ok">>]
       ELSE IF retryAttempt = maxRetries
       THEN [ls |-> w.ls, gallery |-> step.gallery, result |-> "storage_full",
             trace |-> trace \o <<step.event, "write_fail", "fatal">>]
       ELSE RetryLoop(w.ls, step.gallery, retryAttempt,
                      trace \o <<step.event, "write_fail">>, now, ord)

\* GalleryStorage.saveGallery.  The only error localStorage.setItem raises
\* here is QuotaExceededError, so a failed first write enters the loop.
saveGallery(ls, gallery, now, ord) ==
    LET first == WriteGallery(ls, gallery)
    IN IF first.ok
       THEN [ls |-> first.ls, gallery |-> gallery, result |-> "ok",
             trace |-> <<"write_ok">>]
       ELSE RetryLoop(ls, gallery, 0, <<"write_fail">>, now, ord)

deleteGallery(ls, galleryId) ==
    LET removed == RemoveItem(ls, DocKey(galleryId))
        galleries == getGalleryList(removed)
    IN saveGalleryList(removed,
          SelectSeq(galleries, LAMBDA g : g.id # galleryId))

\* ------------------------------------------------------------------------
\* IndexedDBStorage: galleries object store and the migration
\* ------------------------------------------------------------------------
CachedImageSize == 4

GallerySize(g) ==
    1 + Len(g.photos) + Len(g.imageLibrary) + CountThumbs(g.imageLibrary)
      + PreviewSize(g.metadata)

RECURSIVE GalleriesSize(_, _)
GalleriesSize(store, ids) ==
    IF ids = {} THEN 0
    ELSE LET id == CHOOSE x \in ids : TRUE
         IN GallerySize(store[id]) + GalleriesSize(store, ids \ {id})

IdbUsed(store, cache) ==
    GalleriesSize(store, DOMAIN store) + CachedImageSize * Cardinality(DOMAIN cache)

\* store.put on an object store with keyPath 'id': insert or replace; the
\* request fails when the record does not fit in the origin's quota.
StorePut(store, rec) ==
    [x \in (DOMAIN store) \cup {rec.id} |-> IF x = rec.id THEN rec ELSE store[x]]

StoreDelete(store, id) == [x \in (DOMAIN store) \ {id} |-> store[x]]

GalleryPutFits(store, cache, gallery) ==
    IdbUsed(StoreDelete(store, gallery.id), cache) + GallerySize(gallery) <= IdbQuota

getAllGalleries(store) == {ListItemOf(store[id]) : id \in DOMAIN store}

MIGRATION_LIST_KEY == "photo-gallery-galleries"
MigrationDocKey(id) == "photo-gallery-gallery-" \o id

\* Mutation of MigrationKeys: the legacy keys are left in place.
MigrationKeysKept(galleryList) == {}

\* The for loop of migrateFromLocalStorage from item i on, up to the next
\* await: items without a stored document are skipped; after the last item
\* the legacy keys are removed.
MigrationKeys(galleryList) ==
    {MIGRATION_LIST_KEY} \cup {MigrationDocKey(galleryList[j].id) : j \in 1..Len(galleryList)}

MigrateLoopEagerCleanup(ls, m, i) ==
    LET rest == {j \in i..Len(m.galleryList) :
                    MigrationDocKey(m.galleryList[j].id) \in DOMAIN ls}
    IN IF rest # {}
       THEN LET j == CHOOSE x \in rest : \A y \in rest : x <= y IN
            [ls |-> RemoveAll(ls, {MIGRATION_LIST_KEY} \cap DOMAIN ls),
             m |-> [m EXCEPT !.pc = "saving", !.idx = j,
                     !.pending = ls[MigrationDocKey(m.galleryList[j].id)].doc]]
       ELSE [ls |-> RemoveAll(ls, MigrationKeys(m.galleryList) \cap DOMAIN ls),
             m |-> [m EXCEPT !.pc = "done", !.outcome = "completed",
                     !.idx = Len(m.galleryList) + 1]]

MigrateLoop(ls, m, i) ==
    LET rest == {j \in i..Len(m.galleryList) :
                    MigrationDocKey(m.galleryList[j].id) \in DOMAIN ls}
    IN IF rest # {}
       THEN LET j == CHOOSE x \in rest : \A y \in rest : x <= y IN
            [ls |-> ls,
             m |-> [m EXCEPT !.pc = "saving", !.idx = j,
                     !.pending = ls[MigrationDocKey(m.galleryList[j].id)].doc]]
       ELSE [ls |-> RemoveAll(ls, MigrationKeys(m.galleryList) \cap DOMAIN ls),
             m |-> [m EXCEPT !.pc = "done", !.outcome = "completed",
                     !.idx = Len(m.galleryList) + 1]]

\* ------------------------------------------------------------------------
\* IndexedDBStorage: imageCache object store; PhotoCanvas cache write path
\* ------------------------------------------------------------------------
\* A key that leaves the modification time out.
getCacheKeyWithoutTime(fileName, fileSize, lastModified) ==
    CACHE_PREFIX \o fileName \o "-" \o ToString(fileSize)

getCacheKey(fileName, fileSize, lastModified) ==
    CACHE_PREFIX \o fileName \o "-" \o ToString(fileSize) \o "-" \o ToString(lastModified)

FileKey(file) == getCacheKey(file.name, file.size, file.lastModified)

CachePutFits(store, cache, rec) ==
    IdbUsed(store, StoreDelete(cache, rec.id)) + CachedImageSize <= IdbQuota

\* The cursor over the 'timestamp' index, opened on
\* IDBKeyRange.upperBound(cutoffTime): it visits, oldest first, every record
\* whose timestamp is at most cutoffTime, deletes it and counts it.
RECURSIVE SweepCursor(_, _, _)
SweepCursor(cache, cutoffTime, deletedCount) ==
    LET inRange == {k \in DOMAIN cache : cache[k].timestamp <= cutoffTime}
    IN IF inRange = {}
       THEN [cache |-> cache, deletedCount |-> deletedCount]
       ELSE LET k == CHOOSE x \in inRange :
                        \A y \in inRange : cache[x].timestamp <= cache[y].timestamp
            IN SweepCursor(StoreDelete(cache, k), cutoffTime, deletedCount + 1)

clearOldCache(cache, maxAgeMs, t) == SweepCursor(cache, t - maxAgeMs, 0)

clearAllCacheIdb(cache) ==
    [cache |-> EmptyStorage, count |-> Cardinality(DOMAIN cache)]

SweepRecord(cache, maxAgeMs, t) ==
    LET r == clearOldCache(cache, maxAgeMs, t)
    IN [called |-> TRUE, maxAgeMs |-> maxAgeMs, now |-> t, before |-> cache,
        after |-> r.cache, count |-> r.deletedCount]

CachedImageOf(file, t) ==
    [id |-> FileKey(file), originalName |-> file.name, timestamp |-> t,
     fileSize |-> file.size]

\* ------------------------------------------------------------------------
\* IndexedDBStorage.getDB
\* ------------------------------------------------------------------------
Callers == 1..MaxCallers
StoreOperations ==
    {"saveGallery", "getGallery", "getAllGalleries", "deleteGallery", "cacheImage"}
IdleCaller == [pc |-> "idle", op |-> "none", awaits |-> 0]

\* getDB that opens the database on every call.
getDBAlwaysOpens(promise, requests) ==
    [dbPromise |-> Len(requests) + 1, openRequests |-> Append(requests, "pending")]

\* if (!this.dbPromise) { this.dbPromise = new Promise(... indexedDB.open ...) }
\* return this.dbPromise: the test and the assignment run without an await
\* between them.
getDB(promise, requests) ==
    IF promise = 0
    THEN [dbPromise |-> Len(requests) + 1, openRequests |-> Append(requests, "pending")]
    ELSE [dbPromise |-> promise, openRequests |-> requests]

\* ------------------------------------------------------------------------
\* IndexedDBStorage.getStorageUsage
\* ------------------------------------------------------------------------
\* The value of the catch block.
ZeroUsage == [used |-> 0, available |-> 0, cacheEntries |-> 0, galleries |-> 0]

\* A result with the two counts exchanged.
UsageResultSwapped(estimate, cacheCount, galleryCount) ==
    [used |-> IF estimate.usage = <<>> THEN 0 ELSE estimate.usage[1],
     available |-> IF estimate.quota = <<>> THEN 0 ELSE estimate.quota[1],
     cacheEntries |-> galleryCount,
     galleries |-> cacheCount]

\* The value of the return statement of the try block; a field the estimate
\* lacks is <<>>, and `estimate.usage || 0` makes it 0.
UsageResult(estimate, cacheCount, galleryCount) ==
    [used |-> IF estimate.usage = <<>> THEN 0 ELSE estimate.usage[1],
     available |-> IF estimate.quota = <<>> THEN 0 ELSE estimate.quota[1],
     cacheEntries |-> cacheCount,
     galleries |-> galleryCount]

\* ------------------------------------------------------------------------
\* PhotoCanvas: saveGallery and the auto-save effects
\* ------------------------------------------------------------------------
\* The editor content (photos, imageLibrary, imageSize) is named by the
\* number of edits that produced it.
MountedState ==
    [content |-> 0, hasUnsavedChanges |-> FALSE, isSaving |-> FALSE,
     currentGallery |-> [content |-> 0, save |-> 0]]
NoTimer == [armed |-> FALSE, setAt |-> 0, closure |-> MountedState]
NoEditorLog ==
    [edited |-> FALSE, lastEditAt |-> 0, prevEditAt |-> 0, autoStarted |-> FALSE, autoAt |-> 0,
     autoLastEditAt |-> 0, autoAfterEdit |-> FALSE,
     failed |-> FALSE, overlapped |-> FALSE, editedInFlight |-> FALSE,
     error |-> "none", alert |-> "none"]

\* What IndexedDBStorage.saveGallery rejects with: request.error of the put
\* (or of the open in getDB), a DOMException whose message is the browser's.
SaveErrors ==
    {[name |-> "QuotaExceededError", message |-> "The quota has been exceeded."],
     [name |-> "UnknownError", message |-> "Internal error opening backing store."]}

\* String.prototype.includes
Includes(s, p) == \E i \in 1..(Len(s) - Len(p) + 1) : SubSeq(s, i, i + Len(p) - 1) = p

StorageFullAlert ==
    "Storage is full! Please delete some galleries or clear browser data to free up space."
GenericAlert == "Failed to save gallery. Please try again."

\* The catch block of saveGallery(isManual): the message it alerts.
SaveErrorAlert(error, isManual, shown) ==
    IF ~isManual THEN shown
    ELSE IF Includes(error.message, "Storage is full") THEN StorageFullAlert
    ELSE GenericAlert

\* saveGallery is rebuilt by useCallback when one of its dependencies
\* [currentGallery, photos, imageLibrary, imageSize, isSaving] changes.
SaveGalleryChanged(old, new) ==
    \/ old.currentGallery # new.currentGallery
    \/ old.content # new.content
    \/ old.isSaving # new.isSaving

\* An auto-save effect that leaves a running timer alone.
AutoSaveEffectThrottled(timer, old, new, t) ==
    IF old.hasUnsavedChanges # new.hasUnsavedChanges \/ SaveGalleryChanged(old, new)
    THEN IF timer.armed
         THEN timer
         ELSE IF new.hasUnsavedChanges
              THEN [armed |-> TRUE, setAt |-> t, closure |-> new]
              ELSE NoTimer
    ELSE timer

\* The auto-save effect, dependencies [hasUnsavedChanges, saveGallery]: when
\* one changed, the cleanup clears the timer and the effect sets a new one
\* if hasUnsavedChanges.
AutoSaveEffect(timer, old, new, t) ==
    IF old.hasUnsavedChanges # new.hasUnsavedChanges \/ SaveGalleryChanged(old, new)
    THEN IF new.hasUnsavedChanges
         THEN [armed |-> TRUE, setAt |-> t, closure |-> new]
         ELSE NoTimer
    ELSE timer

\* The effect with dependencies [photos, imageLibrary, imageSize]:
\* setHasUnsavedChanges(true).
MarkUnsavedEffect(state, old, new) ==
    IF old.content # new.content
    THEN [state EXCEPT !.hasUnsavedChanges = TRUE]
    ELSE state

\* A render of PhotoCanvas with the queued state, followed by its effects.
Commit(state, old, timer, t) ==
    [rendered |-> state,
     autoSaveTimer |-> AutoSaveEffect(timer, old, state, t),
     reactState |-> MarkUnsavedEffect(state, old, state)]

\* saveGallery(isManual) as the closure of one render runs it, up to
\* `await IndexedDBStorage.saveGallery(updatedGallery)`.
StartSave(closure, state, pending, count, isManual) ==
    IF closure.isSaving
    THEN [started |-> FALSE, reactState |-> state, inFlight |-> pending, saveCount |-> count]
    ELSE [started |-> TRUE,
          reactState |-> [state EXCEPT !.isSaving = TRUE],
          inFlight |-> Append(pending, [content |-> closure.content, isManual |-> isManual,
                                        save |-> count + 1]),
          saveCount |-> count + 1]

\* ------------------------------------------------------------------------
\* resizeImage
\* ------------------------------------------------------------------------
\* The JavaScript number n / d, kept exactly as whole part q and remainder
\* r over d.
Quotient(n, d) == [q |-> n \div d, r |-> n % d, d |-> d]

\* canvas.width and canvas.height are unsigned long attributes: assigning a
\* number drops its fraction.
ToUnsignedLong(x) == x.q

\* A resize that always scales by the width.
resizeImageByWidth(width, height, maxSize) ==
    IF width > maxSize \/ height > maxSize
    THEN [width |-> Quotient(maxSize, 1), height |-> Quotient(height * maxSize, width)]
    ELSE [width |-> Quotient(width, 1), height |-> Quotient(height, 1)]

\* img.onload of resizeImage: the new dimensions.
resizeImage(width, height, maxSize) ==
    IF width > maxSize \/ height > maxSize
    THEN IF width > height
         THEN [width |-> Quotient(maxSize, 1),
               height |-> Quotient(height * maxSize, width)]
         ELSE [width |-> Quotient(width * maxSize, height),
               height |-> Quotient(maxSize, 1)]
    ELSE [width |-> Quotient(width, 1), height |-> Quotient(height, 1)]

\* Widths and heights of source images, around the two caps.
SourceDims == {1, 150, 199, 200, 201, 1536, 2047, 2048, 2049, 3000, 4000}
SourceImages ==
    [width : SourceDims, height : SourceDims, maxSize : {MAX_IMAGE_SIZE, THUMBNAIL_SIZE}]

\* File objects a file input can deliver: names with dashes and digits in
\* them, sizes, and modification times on either side of the epoch.
KeyFiles ==
    [name : {"a", "a-", "a-1", "a-1-2", "a--1"}, size : {0, 1, 2},
     lastModified : {-2, -1, 1, 2}]

\* ------------------------------------------------------------------------
\* State
\* ------------------------------------------------------------------------
VARIABLES
    localStorage,     \* key -> stored text
    now,              \* Date.now()
    lastSave,         \* outcome of the latest GalleryStorage.saveGallery call
    generation,       \* "legacy": localStorage app; "indexed": IndexedDB app
    legacyAtUpgrade,  \* ids the legacy store held when the app was upgraded
    galleryStore,     \* IndexedDB object store 'galleries': id -> document
    mig,              \* the running migrateFromLocalStorage call
    imageCache,       \* IndexedDB object store 'imageCache': id -> record
    task,             \* the processImage calls in flight
    lastSweep,        \* the latest IndexedDBStorage.clearOldCache call
    browser,          \* GalleryManager: its loadGalleries call
    dbPromise,        \* IndexedDBStorage.dbPromise: 0 (null) or an open request
    openRequests,     \* the indexedDB.open requests made so far
    caller,           \* store operations awaiting getDB()
    reactState,       \* PhotoCanvas state, as the latest setState calls left it
    rendered,         \* the state values the last render of PhotoCanvas saw
    autoSaveTimer,    \* the setTimeout of the auto-save effect
    inFlight,         \* IndexedDBStorage.saveGallery calls of the editor awaiting
    savedContent,     \* the editor content the stored document holds
    saveCount,        \* saves the editor has started
    editorLog,        \* when the last edit and the last automatic save happened
    upload,           \* handleImageUpload: the batch and the image library
    image,            \* the source image and the cap of a resizeImage call
    resized,          \* what that resizeImage call settled with
    keyed,            \* two files and the cache keys processImage derived for them
    usage             \* the running getStorageUsage call and its result

vars == <<localStorage, now, lastSave, generation, legacyAtUpgrade, galleryStore, mig,
          imageCache, task, lastSweep, browser,
          dbPromise, openRequests, caller,
          reactState, rendered, autoSaveTimer, inFlight, savedContent, saveCount,
          editorLog, upload, image, resized, keyed, usage>>
legacyVars == <<localStorage, lastSave>>
upgradeVars == <<generation, legacyAtUpgrade, galleryStore, mig>>
cacheVars == <<imageCache, task, lastSweep>>
sessionVars == <<browser>>
dbVars == <<dbPromise, openRequests, caller>>
editorVars == <<reactState, rendered, autoSaveTimer, inFlight, savedContent, saveCount,
                editorLog>>
uploadVars == <<upload>>
resizeVars == <<image, resized>>
appVars == <<sessionVars, dbVars, editorVars, uploadVars, resizeVars, keyed, usage>>

\* Documents as createNewGallery and updateGalleryMetadata hand them to
\* saveGallery: counts recomputed, preview only when a photo is placed.
PhotoLens == {0, 1, MaxCanvasPhotos + 1}
LibraryFor(n) == IF n = 0 THEN <<>> ELSE <<LibraryEntry(TRUE)>>

OwnerGallery(id, n, lib, preview, t) ==
    [id |-> id, name |-> id, createdAt |-> DateOf(T0), updatedAt |-> DateOf(t),
     photos |-> Photos(n), imageLibrary |-> lib,
     settings |-> [imageSize |-> 300],
     metadata |-> [photoCount |-> n, libraryCount |-> Len(lib),
                   previewThumbnail |-> preview]]

OwnerGalleries(t) ==
    {OwnerGallery(id, n, LibraryFor(n), preview, t) :
        id \in GalleryIds, n \in PhotoLens, preview \in BOOLEAN} \
    {OwnerGallery(id, 0, LibraryFor(0), TRUE, t) : id \in GalleryIds}

SmallGalleries(t) ==
    {OwnerGallery(id, n, LibraryFor(n), n > 0, t) : id \in GalleryIds, n \in {0, 1}}

CacheAt(k, ts) == [x \in {k} |-> [kind |-> "cache", timestamp |-> ts]]

\* Cache records left in localStorage by earlier sessions.
LegacyCaches ==
    {Merge(a, b) :
        a \in {EmptyStorage} \cup
              {CacheAt(CACHE_PREFIX \o "a.jpg-10-1", ts) :
                  ts \in {0, T0 - CACHE_EXPIRY_DAYS * MsPerDay - 1, T0}},
        b \in {EmptyStorage} \cup
              {CacheAt(CACHE_PREFIX \o "b.jpg-20-2", ts) :
                  ts \in {T0 - CACHE_EXPIRY_DAYS * MsPerDay, T0}}}

\* Data in the layout migrateFromLocalStorage reads.
OldDoc(id, n) == StringifyGallery(OwnerGallery(id, n, LibraryFor(n), n > 0, T0))
OldFormatStorage(withSecondDoc) ==
    LET d1 == OldDoc("gallery-1", 1)
        d2 == OldDoc("gallery-2", 0)
    IN [k \in {MIGRATION_LIST_KEY, MigrationDocKey("gallery-1")} \cup
              (IF withSecondDoc THEN {MigrationDocKey("gallery-2")} ELSE {}) |->
          IF k = MIGRATION_LIST_KEY
          THEN [kind |-> "list", items |-> <<ListItemOf(d1), ListItemOf(d2)>>]
          ELSE IF k = MigrationDocKey("gallery-1")
          THEN [kind |-> "gallery", doc |-> d1]
          ELSE [kind |-> "gallery", doc |-> d2]]

Tasks == 1..MaxTasks
FileA == [name |-> "a.jpg", size |-> 10, lastModified |-> 1]
FileB == [name |-> "b.jpg", size |-> 20, lastModified |-> 2]
FileC == [name |-> "c.jpg", size |-> 30, lastModified |-> 3]
Files == {FileA, FileB}

IdleTask ==
    [pc |-> "idle", file |-> FileA, cachedImage |-> [id |-> "none"],
     trace |-> <<>>, outcome |-> "none"]
NoSweep == [called |-> FALSE]

\* Records cached in earlier sessions, with timestamps around the expiry.
SweepStamps == {T0 - DefaultMaxAgeMs - 1, T0 - DefaultMaxAgeMs, T0 - DefaultMaxAgeMs + 1}
RecordAt(file, ts) == [x \in {FileKey(file)} |-> CachedImageOf(file, ts)]
EarlierCaches ==
    {Merge(a, c) :
        a \in {EmptyStorage} \cup {RecordAt(FileA, ts) : ts \in SweepStamps},
        c \in {EmptyStorage} \cup {RecordAt(FileC, ts) : ts \in SweepStamps}}

NoItem == [kind |-> "none"]
NoUpload == [items |-> [t \in Tasks |-> NoItem], library |-> <<>>, done |-> FALSE]

\* The library entry handleImageUpload builds from a processed image.
LibraryItemOf(cachedImage) ==
    [kind |-> "processed", id |-> cachedImage.id, name |-> cachedImage.originalName]

\* The library entry of the fallback: the file read as a data URL.
FallbackItemOf(file, t) ==
    [kind |-> "raw", id |-> ToString(t), name |-> file.name]

\* A batch that leaves out the files that fell back.
PromiseAllDropsFallbacks(items) ==
    SelectSeq([t \in Tasks |-> items[t]], LAMBDA item : item.kind = "processed")

\* Promise.all over fileArray.map: the results in the order of the files.
PromiseAll(items) == [t \in Tasks |-> items[t]]

NoSave == [called |-> FALSE]
Unmounted == [pc |-> "unmounted", migrationAtIssue |-> "none", galleries |-> {}]
NoMigration ==
    [pc |-> "idle", galleryList |-> <<>>, idx |-> 0, pending |-> [id |-> "none"],
     outcome |-> "none", runs |-> 0, afterCompleted |-> FALSE, copied |-> 0]

\* PhotoCanvas after its first render and effects: the effect on
\* [photos, imageLibrary, imageSize] has called setHasUnsavedChanges(true).
InitEditor ==
    /\ rendered = MountedState
    /\ reactState = [MountedState EXCEPT !.hasUnsavedChanges = TRUE]
    /\ autoSaveTimer = NoTimer
    /\ inFlight = <<>>
    /\ savedContent = 0
    /\ saveCount = 0
    /\ editorLog = NoEditorLog

NoKeys == keyed = [pc |-> "none"]

NoUsage ==
    usage = [pc |-> "idle", estimate |-> [usage |-> <<>>, quota |-> <<>>], galleries |-> 0,
             failed |-> FALSE, result |-> ZeroUsage]

NoResize ==
    /\ image = [width |-> 1, height |-> 1, maxSize |-> MAX_IMAGE_SIZE]
    /\ resized = [status |-> "none"]

InitDB ==
    /\ dbPromise = 0
    /\ openRequests = <<>>
    /\ caller = [c \in Callers |-> IdleCaller]

\* The stores as a fresh installation of the IndexedDB app finds them.
FreshStores ==
    /\ localStorage = EmptyStorage
    /\ now = T0
    /\ lastSave = NoSave
    /\ generation = "indexed"
    /\ legacyAtUpgrade = {}
    /\ galleryStore = EmptyStorage
    /\ mig = NoMigration
    /\ imageCache = EmptyStorage
    /\ task = [t \in Tasks |-> IdleTask]
    /\ lastSweep = NoSweep

InitLegacy ==
    /\ localStorage \in LegacyCaches
    /\ now = T0
    /\ lastSave = NoSave
    /\ generation = "legacy"
    /\ legacyAtUpgrade = {}
    /\ galleryStore = EmptyStorage
    /\ mig = NoMigration
    /\ imageCache = EmptyStorage
    /\ task = [t \in Tasks |-> IdleTask]
    /\ lastSweep = NoSweep
    /\ browser = Unmounted
    /\ InitDB
    /\ InitEditor
    /\ upload = NoUpload
    /\ NoResize /\ NoKeys /\ NoUsage

InitUpgrade ==
    /\ localStorage \in {EmptyStorage, OldFormatStorage(TRUE), OldFormatStorage(FALSE)}
    /\ now = T0
    /\ lastSave = NoSave
    /\ generation = "legacy"
    /\ legacyAtUpgrade = {}
    /\ galleryStore = EmptyStorage
    /\ mig = NoMigration
    /\ imageCache = EmptyStorage
    /\ task = [t \in Tasks |-> IdleTask]
    /\ lastSweep = NoSweep
    /\ browser = Unmounted
    /\ InitDB
    /\ InitEditor
    /\ upload = NoUpload
    /\ NoResize /\ NoKeys /\ NoUsage

LegacySaveFrom(inputs) ==
    /\ generation = "legacy"
    /\ \E g \in inputs, ord \in Perms(LegacyCacheKeys) :
        LET r == saveGallery(localStorage, g, now, ord) IN
        /\ localStorage' = r.ls
        /\ lastSave' = [called |-> TRUE, arg |-> g, gallery |-> r.gallery,
                        result |-> r.result, trace |-> r.trace]
    /\ UNCHANGED <<now, upgradeVars, cacheVars, appVars>>

LegacySave == LegacySaveFrom(OwnerGalleries(now))
LegacySaveSmall == LegacySaveFrom(SmallGalleries(now))

LegacyDelete ==
    /\ generation = "legacy"
    /\ \E id \in GalleryIds : localStorage' = deleteGallery(localStorage, id)
    /\ UNCHANGED <<now, lastSave, upgradeVars, cacheVars, appVars>>

Tick ==
    /\ now < T0 + MaxTicks
    /\ now' = now + 1
    /\ UNCHANGED <<legacyVars, upgradeVars, cacheVars, appVars>>

\* The IndexedDB version of the app replaces the localStorage version.
Upgrade ==
    /\ generation = "legacy"
    /\ generation' = "indexed"
    /\ legacyAtUpgrade' = {id \in GalleryIds : DocKey(id) \in DOMAIN localStorage}
    /\ UNCHANGED <<localStorage, now, lastSave, galleryStore, mig, cacheVars, appVars>>

\* migrateFromLocalStorage up to its first await.
MigrateStart ==
    /\ generation = "indexed"
    /\ mig.pc \in {"idle", "done"}
    /\ mig.runs = 0 => browser.pc # "unmounted"
    /\ mig.runs < MaxMigrateRuns
    /\ LET m0 == [mig EXCEPT !.runs = @ + 1, !.outcome = "none", !.idx = 0,
                             !.pending = [id |-> "none"],
                             !.afterCompleted = (mig.outcome = "completed"),
                             !.galleryList = <<>>]
       IN IF MIGRATION_LIST_KEY \in DOMAIN localStorage
          THEN LET r == MigrateLoop(localStorage,
                            [m0 EXCEPT !.galleryList = localStorage[MIGRATION_LIST_KEY].items], 1)
               IN mig' = r.m /\ localStorage' = r.ls
          ELSE /\ mig' = [m0 EXCEPT !.pc = "done", !.outcome = "completed"]
               /\ UNCHANGED localStorage
    /\ UNCHANGED <<now, lastSave, generation, legacyAtUpgrade, galleryStore, cacheVars, appVars>>

\* The awaited saveGallery resolves; the loop runs on to the next await.
MigratePutOk ==
    /\ mig.pc = "saving"
    /\ GalleryPutFits(galleryStore, imageCache, mig.pending)
    /\ galleryStore' = StorePut(galleryStore, mig.pending)
    /\ LET r == MigrateLoop(localStorage,
                    [mig EXCEPT !.copied = @ + 1, !.pending = [id |-> "none"]],
                    mig.idx + 1)
       IN mig' = r.m /\ localStorage' = r.ls
    /\ UNCHANGED <<now, lastSave, generation, legacyAtUpgrade, cacheVars, appVars>>

\* The awaited saveGallery rejects; the catch block logs the error.
MigratePutFail ==
    /\ mig.pc = "saving"
    /\ ~GalleryPutFits(galleryStore, imageCache, mig.pending)
    /\ mig' = [mig EXCEPT !.pc = "done", !.outcome = "failed",
                          !.pending = [id |-> "none"]]
    /\ UNCHANGED <<localStorage, now, lastSave, generation, legacyAtUpgrade, galleryStore, cacheVars, appVars>>

\* GalleryManager mount effect: loadGalleries() runs up to its first await,
\* issuing getAllGalleries().  React runs the effects of a child before those
\* of its parent, so this precedes the App effect that calls the migration.
LoadGalleries ==
    /\ generation = "indexed"
    /\ browser.pc = "unmounted"
    /\ mig.runs = 0
    /\ browser' = [browser EXCEPT
            !.pc = "reading",
            !.migrationAtIssue =
                IF mig.runs > 0 /\ mig.pc = "done" THEN "finished" ELSE "unfinished"]
    /\ UNCHANGED <<now, legacyVars, upgradeVars, cacheVars, dbVars, editorVars, uploadVars, resizeVars, keyed, usage>>

\* The getAll request of loadGalleries succeeds: setGalleries(galleryList).
GalleriesLoaded ==
    /\ browser.pc = "reading"
    /\ LET galleryList == getAllGalleries(galleryStore)
           \* galleryList.sort compares updatedAt.getTime(); on a list of two
           \* or more it throws when an updatedAt is not a Date, and the
           \* catch block calls setGalleries([]).
           sortThrows == /\ Cardinality(galleryList) >= 2
                         /\ \E item \in galleryList : item.updatedAt.repr # "Date"
       IN browser' = [browser EXCEPT
            !.pc = "loaded",
            !.galleries = IF sortThrows THEN {} ELSE {item.id : item \in galleryList}]
    /\ UNCHANGED <<now, legacyVars, upgradeVars, cacheVars, dbVars, editorVars, uploadVars, resizeVars, keyed, usage>>

\* PhotoCanvas.saveGallery on a gallery opened from the indexed store, with
\* the editor holding n placed photos and the library lib.
CanvasGallery(currentGallery, n, lib, t) ==
    [currentGallery EXCEPT
        !.photos = Photos(n), !.imageLibrary = lib,
        !.updatedAt = DateOf(t),
        !.metadata = [@ EXCEPT !.photoCount = n, !.libraryCount = Len(lib)]]

CanvasSave ==
    /\ generation = "indexed"
    /\ \E id \in DOMAIN galleryStore, n \in EditorPhotoLens :
         LET cur == galleryStore[id]
             updatedGallery == CanvasGallery(cur, n, cur.imageLibrary, now)
         IN /\ GalleryPutFits(galleryStore, imageCache, updatedGallery)
            /\ galleryStore' = StorePut(galleryStore, updatedGallery)
    /\ UNCHANGED <<localStorage, now, lastSave, generation, legacyAtUpgrade, mig, cacheVars, appVars>>

\* processImage(file) begins: the cache key is derived and the lookup issued.
StartProcess(t) ==
    /\ task[t].pc = "idle"
    /\ \E file \in Files :
         task' = [task EXCEPT ![t] = [@ EXCEPT !.pc = "lookup", !.file = file]]
    /\ UNCHANGED <<now, legacyVars, upgradeVars, imageCache, lastSweep, appVars>>

\* getCachedImage resolves: a hit is returned as it is.
Lookup(t) ==
    /\ task[t].pc = "lookup"
    /\ LET cacheKey == FileKey(task[t].file) IN
       IF cacheKey \in DOMAIN imageCache
       THEN task' = [task EXCEPT ![t] = [@ EXCEPT !.pc = "done", !.outcome = "hit",
                                           !.cachedImage = imageCache[cacheKey]]]
       ELSE task' = [task EXCEPT ![t] = [@ EXCEPT !.pc = "resize"]]
    /\ UNCHANGED <<now, legacyVars, upgradeVars, imageCache, lastSweep, appVars>>

\* Both resizeImage calls resolve and the record is built.
ResizeOk(t) ==
    /\ task[t].pc = "resize"
    /\ task' = [task EXCEPT ![t] = [@ EXCEPT !.pc = "put",
                                      !.cachedImage = CachedImageOf(task[t].file, now)]]
    /\ UNCHANGED <<now, legacyVars, upgradeVars, imageCache, lastSweep, appVars>>

\* A resizeImage call rejects: processImage rejects with that error.
ResizeFail(t) ==
    /\ task[t].pc = "resize"
    /\ task' = [task EXCEPT ![t] = [@ EXCEPT !.pc = "done", !.outcome = "decode_error"]]
    /\ UNCHANGED <<now, legacyVars, upgradeVars, imageCache, lastSweep, appVars>>

\* setCachedImage: the first cacheImage call.
PutFirst(t) ==
    /\ task[t].pc = "put"
    /\ IF CachePutFits(galleryStore, imageCache, task[t].cachedImage)
       THEN /\ imageCache' = StorePut(imageCache, task[t].cachedImage)
            /\ task' = [task EXCEPT ![t] = [@ EXCEPT !.pc = "done", !.outcome = "returned",
                            !.trace = Append(@, [op |-> "put", ok |-> TRUE])]]
       ELSE /\ UNCHANGED imageCache
            /\ task' = [task EXCEPT ![t] = [@ EXCEPT !.pc = "sweep",
                            !.trace = Append(@, [op |-> "put", ok |-> FALSE])]]
    /\ UNCHANGED <<now, legacyVars, upgradeVars, lastSweep, appVars>>

\* setCachedImage, catch block: clearOldCache() with its default age.
SweepAfterFailure(t) ==
    /\ task[t].pc = "sweep"
    /\ lastSweep' = SweepRecord(imageCache, DefaultMaxAgeMs, now)
    /\ imageCache' = lastSweep'.after
    /\ task' = [task EXCEPT ![t] = [@ EXCEPT !.pc = "retry",
                    !.trace = Append(@, [op |-> "clearExpired",
                                         maxAgeMs |-> DefaultMaxAgeMs])]]
    /\ UNCHANGED <<now, legacyVars, upgradeVars, appVars>>

\* setCachedImage, catch block: the second cacheImage call; its failure is
\* logged and setCachedImage returns.
PutRetry(t) ==
    /\ task[t].pc = "retry"
    /\ IF CachePutFits(galleryStore, imageCache, task[t].cachedImage)
       THEN /\ imageCache' = StorePut(imageCache, task[t].cachedImage)
            /\ task' = [task EXCEPT ![t] = [@ EXCEPT !.pc = "done", !.outcome = "returned",
                            !.trace = Append(@, [op |-> "put", ok |-> TRUE])]]
       ELSE /\ UNCHANGED imageCache
            /\ task' = [task EXCEPT ![t] = [@ EXCEPT !.pc = "done", !.outcome = "returned",
                            !.trace = Append(@, [op |-> "put", ok |-> FALSE])]]
    /\ UNCHANGED <<now, legacyVars, upgradeVars, lastSweep, appVars>>

\* PhotoCanvas mount effect: clearOldCache() after the migration.
StartupSweep ==
    /\ lastSweep' = SweepRecord(imageCache, DefaultMaxAgeMs, now)
    /\ imageCache' = lastSweep'.after
    /\ UNCHANGED <<now, legacyVars, upgradeVars, task, appVars>>

\* GalleryManager.handleClearCache: clearAllCache().
ManualClearAll ==
    /\ imageCache' = clearAllCacheIdb(imageCache).cache
    /\ UNCHANGED <<now, legacyVars, upgradeVars, task, lastSweep, appVars>>

\* A store operation is called: it runs up to `await this.getDB()`.
CallStoreOperation(c) ==
    /\ caller[c].pc = "idle"
    /\ \E op \in StoreOperations :
         LET r == getDB(dbPromise, openRequests) IN
         /\ dbPromise' = r.dbPromise
         /\ openRequests' = r.openRequests
         /\ caller' = [caller EXCEPT ![c] = [pc |-> "awaiting", op |-> op,
                                              awaits |-> r.dbPromise]]
    /\ UNCHANGED <<now, legacyVars, upgradeVars, cacheVars, sessionVars, editorVars, uploadVars, resizeVars, keyed, usage>>

\* request.onsuccess of an open request: its promise resolves.
OpenSuccess ==
    /\ \E i \in 1..Len(openRequests) :
         /\ openRequests[i] = "pending"
         /\ openRequests' = [openRequests EXCEPT ![i] = "success"]
    /\ UNCHANGED <<now, legacyVars, upgradeVars, cacheVars, sessionVars, editorVars, uploadVars, resizeVars, keyed, usage, dbPromise, caller>>

\* request.onerror of an open request: its promise rejects.
OpenError ==
    /\ \E i \in 1..Len(openRequests) :
         /\ openRequests[i] = "pending"
         /\ openRequests' = [openRequests EXCEPT ![i] = "error"]
    /\ UNCHANGED <<now, legacyVars, upgradeVars, cacheVars, sessionVars, editorVars, uploadVars, resizeVars, keyed, usage, dbPromise, caller>>

\* The awaited promise has settled: the operation opens its transaction, or
\* rejects with the open error.
ResumeStoreOperation(c) ==
    /\ caller[c].pc = "awaiting"
    /\ openRequests[caller[c].awaits] # "pending"
    /\ caller' = [caller EXCEPT ![c].pc =
            IF openRequests[caller[c].awaits] = "success" THEN "transaction" ELSE "rejected"]
    /\ UNCHANGED <<now, legacyVars, upgradeVars, cacheVars, sessionVars, editorVars, uploadVars, resizeVars, keyed, usage, dbPromise, openRequests>>

\* A user edit of photos, imageLibrary or imageSize (a setState call in an
\* event handler), with the render and the effects that follow the event.
\* A render takes every queued state update.
Edit ==
    /\ reactState.content < MaxEdits
    /\ LET c == Commit([reactState EXCEPT !.content = @ + 1], rendered, autoSaveTimer, now)
       IN /\ rendered' = c.rendered
          /\ autoSaveTimer' = c.autoSaveTimer
          /\ reactState' = c.reactState
    /\ editorLog' = [editorLog EXCEPT !.edited = TRUE, !.lastEditAt = now,
                                       !.prevEditAt = editorLog.lastEditAt,
                                       !.editedInFlight = @ \/ inFlight # <<>>]
    /\ UNCHANGED <<now, legacyVars, upgradeVars, cacheVars, sessionVars, dbVars, uploadVars, resizeVars, keyed, usage,
                   inFlight, savedContent, saveCount>>

\* A render scheduled by setState calls made outside an event handler (in
\* the timer callback, after an await, in an effect), and its effects.
Render ==
    /\ reactState # rendered
    /\ LET c == Commit(reactState, rendered, autoSaveTimer, now)
       IN /\ rendered' = c.rendered
          /\ autoSaveTimer' = c.autoSaveTimer
          /\ reactState' = c.reactState
    /\ UNCHANGED <<now, legacyVars, upgradeVars, cacheVars, sessionVars, dbVars, uploadVars, resizeVars, keyed, usage,
                   inFlight, savedContent, saveCount, editorLog>>

\* The auto-save timer fires: saveGallery() of the render that set it.
AutoSaveTimerFires ==
    /\ autoSaveTimer.armed
    /\ now >= autoSaveTimer.setAt + AutoSaveDelayMs
    /\ saveCount < MaxSaves
    /\ LET r == StartSave(autoSaveTimer.closure, reactState, inFlight, saveCount, FALSE)
       IN /\ reactState' = r.reactState
          /\ inFlight' = r.inFlight
          /\ saveCount' = r.saveCount
          /\ editorLog' =
                IF r.started
                THEN [editorLog EXCEPT !.autoStarted = TRUE, !.autoAt = now,
                                       !.autoLastEditAt = editorLog.lastEditAt,
                                       !.autoAfterEdit = editorLog.edited,
                                       !.overlapped = @ \/ inFlight # <<>>]
                ELSE editorLog
    /\ autoSaveTimer' = [autoSaveTimer EXCEPT !.armed = FALSE]
    /\ UNCHANGED <<now, legacyVars, upgradeVars, cacheVars, sessionVars, dbVars, uploadVars, resizeVars, keyed, usage,
                   rendered, savedContent>>

\* A click on the save button: handleManualSave of the last render, then the
\* render its setIsSaving(true) causes.
ManualSave ==
    /\ saveCount < MaxSaves
    /\ LET r == StartSave(rendered, reactState, inFlight, saveCount, TRUE)
           c == Commit(r.reactState, rendered, autoSaveTimer, now)
       IN /\ inFlight' = r.inFlight
          /\ saveCount' = r.saveCount
          /\ editorLog' = [editorLog EXCEPT
                              !.overlapped = @ \/ (r.started /\ inFlight # <<>>)]
          /\ IF r.started
             THEN /\ rendered' = c.rendered
                  /\ autoSaveTimer' = c.autoSaveTimer
                  /\ reactState' = c.reactState
             ELSE UNCHANGED <<rendered, autoSaveTimer, reactState>>
    /\ UNCHANGED <<now, legacyVars, upgradeVars, cacheVars, sessionVars, dbVars, uploadVars, resizeVars, keyed, usage,
                   savedContent>>

\* The awaited IndexedDBStorage.saveGallery resolves: setCurrentGallery,
\* setHasUnsavedChanges(false), setLastSaved, and setIsSaving(false) in
\* the finally block.
SaveSucceeds ==
    /\ inFlight # <<>>
    /\ LET s == Head(inFlight) IN
       /\ savedContent' = s.content
       /\ reactState' = [reactState EXCEPT
                            !.currentGallery = [content |-> s.content, save |-> s.save],
                            !.hasUnsavedChanges = FALSE,
                            !.isSaving = FALSE]
    /\ inFlight' = Tail(inFlight)
    /\ UNCHANGED <<now, legacyVars, upgradeVars, cacheVars, sessionVars, dbVars, uploadVars, resizeVars, keyed, usage,
                   rendered, autoSaveTimer, saveCount, editorLog>>

\* The awaited IndexedDBStorage.saveGallery rejects: the catch block, then
\* setIsSaving(false) in the finally block.
SaveFails ==
    /\ inFlight # <<>>
    /\ reactState' = [reactState EXCEPT !.isSaving = FALSE]
    /\ inFlight' = Tail(inFlight)
    /\ \E error \in SaveErrors :
          editorLog' = [editorLog EXCEPT
                           !.failed = TRUE,
                           !.error = IF Head(inFlight).isManual THEN error.name ELSE @,
                           !.alert = SaveErrorAlert(error, Head(inFlight).isManual, @)]
    /\ UNCHANGED <<now, legacyVars, upgradeVars, cacheVars, sessionVars, dbVars, uploadVars, resizeVars, keyed, usage,
                   rendered, autoSaveTimer, savedContent, saveCount>>

\* Time passes while the editor is open.
Elapse ==
    /\ now < T0 + MaxWaits * ElapseMs
    /\ now' = now + ElapseMs
    /\ UNCHANGED <<legacyVars, upgradeVars, cacheVars, appVars>>

\* handleImageUpload: fileArray.map calls processImage for every file; each
\* call runs up to its first await.
UploadBatch ==
    /\ \A t \in Tasks : task[t].pc = "idle"
    /\ ~upload.done
    /\ \E files \in [Tasks -> Files \cup {FileC}] :
         task' = [t \in Tasks |-> [task[t] EXCEPT !.pc = "lookup", !.file = files[t]]]
    /\ UNCHANGED <<now, legacyVars, upgradeVars, imageCache, lastSweep, appVars>>

\* `await processImage(file)` resolves: the library entry of the file.
ProcessResolved(t) ==
    /\ task[t].pc = "done"
    /\ task[t].outcome \in {"hit", "returned"}
    /\ upload.items[t] = NoItem
    /\ upload' = [upload EXCEPT !.items[t] = LibraryItemOf(task[t].cachedImage)]
    /\ UNCHANGED <<now, legacyVars, upgradeVars, cacheVars, sessionVars, dbVars, editorVars, resizeVars, keyed, usage>>

\* `await processImage(file)` rejected and the catch block started a
\* FileReader; reader.onload resolves with the raw data URL.
FallbackRead(t) ==
    /\ task[t].pc = "done"
    /\ task[t].outcome = "decode_error"
    /\ upload.items[t] = NoItem
    /\ upload' = [upload EXCEPT !.items[t] = FallbackItemOf(task[t].file, now)]
    /\ UNCHANGED <<now, legacyVars, upgradeVars, cacheVars, sessionVars, dbVars, editorVars, resizeVars, keyed, usage>>

\* `await processImage(file)` rejected and the catch block started a
\* FileReader; the read fails.  The reader has no onerror handler, so the
\* promise of this file stays pending.
FallbackReadFails(t) ==
    /\ task[t].pc = "done"
    /\ task[t].outcome = "decode_error"
    /\ upload.items[t] = NoItem
    /\ upload' = [upload EXCEPT !.items[t] = [kind |-> "pending"]]
    /\ UNCHANGED <<now, legacyVars, upgradeVars, cacheVars, sessionVars, dbVars, editorVars, resizeVars, keyed, usage>>

\* Promise.all resolves: setImageLibrary(prev => [...prev, ...processedImages]),
\* then setIsProcessing(false) in the finally block.
BatchDone ==
    /\ ~upload.done
    /\ \A t \in Tasks : upload.items[t].kind \notin {"none", "pending"}
    /\ upload' = [upload EXCEPT !.library = @ \o PromiseAll(upload.items),
                                 !.done = TRUE]
    /\ UNCHANGED <<now, legacyVars, upgradeVars, cacheVars, sessionVars, dbVars, editorVars, resizeVars, keyed, usage>>

\* resizeImage(file, maxSize): img.onload draws the canvas and resolves.
ImageLoads ==
    /\ resized.status = "pending"
    /\ LET r == resizeImage(image.width, image.height, image.maxSize) IN
       resized' = [status |-> "resolved", width |-> r.width, height |-> r.height,
                   canvasWidth |-> ToUnsignedLong(r.width),
                   canvasHeight |-> ToUnsignedLong(r.height)]
    /\ UNCHANGED <<now, legacyVars, upgradeVars, cacheVars, sessionVars, dbVars, editorVars,
                   uploadVars, keyed, usage, image>>

\* resizeImage(file, maxSize): img.onerror rejects.
ImageFails ==
    /\ resized.status = "pending"
    /\ resized' = [status |-> "rejected"]
    /\ UNCHANGED <<now, legacyVars, upgradeVars, cacheVars, sessionVars, dbVars, editorVars,
                   uploadVars, keyed, usage, image>>

\* processImage(file), first statement, for two files.
DeriveKeys ==
    /\ keyed.pc = "files"
    /\ keyed' = [keyed EXCEPT !.pc = "keys", !.keyA = FileKey(keyed.a),
                               !.keyB = FileKey(keyed.b)]
    /\ UNCHANGED <<now, legacyVars, upgradeVars, cacheVars, sessionVars, dbVars, editorVars,
                   uploadVars, resizeVars, usage>>

\* getStorageUsage is called: navigator.storage.estimate() and getDB() are
\* awaited; either may throw or reject, and the estimate may lack its fields.
GetStorageUsage ==
    /\ usage.pc \in {"idle", "done"}
    /\ \E outcome \in {"estimateFails", "openFails", "noFields", "fields"} :
         usage' = IF outcome \in {"estimateFails", "openFails"}
                  THEN [usage EXCEPT !.pc = "done", !.failed = TRUE, !.result = ZeroUsage]
                  ELSE [usage EXCEPT
                          !.pc = "galleries", !.failed = FALSE,
                          !.estimate =
                              IF outcome = "noFields" THEN [usage |-> <<>>, quota |-> <<>>]
                              ELSE [usage |-> <<IdbUsed(galleryStore, imageCache)>>,
                                    quota |-> <<IdbQuota>>]]
    /\ UNCHANGED <<now, legacyVars, upgradeVars, cacheVars, sessionVars, dbVars, editorVars,
                   uploadVars, resizeVars, keyed>>

\* getStorageUsage: galleryStore.count() succeeds or fails.
CountGalleries ==
    /\ usage.pc = "galleries"
    /\ \E ok \in BOOLEAN :
         usage' = IF ok
                  THEN [usage EXCEPT !.pc = "cache",
                                     !.galleries = Cardinality(DOMAIN galleryStore)]
                  ELSE [usage EXCEPT !.pc = "done", !.failed = TRUE, !.result = ZeroUsage]
    /\ UNCHANGED <<now, legacyVars, upgradeVars, cacheVars, sessionVars, dbVars, editorVars,
                   uploadVars, resizeVars, keyed>>

\* getStorageUsage: cacheStore.count() succeeds or fails; the call returns.
CountCacheEntries ==
    /\ usage.pc = "cache"
    /\ \E ok \in BOOLEAN :
         usage' = IF ok
                  THEN [usage EXCEPT
                          !.pc = "done",
                          !.result = UsageResult(usage.estimate,
                                                 Cardinality(DOMAIN imageCache),
                                                 usage.galleries)]
                  ELSE [usage EXCEPT !.pc = "done", !.failed = TRUE, !.result = ZeroUsage]
    /\ UNCHANGED <<now, legacyVars, upgradeVars, cacheVars, sessionVars, dbVars, editorVars,
                   uploadVars, resizeVars, keyed>>

\* IndexedDBStorage.saveGallery(gallery): store.put.
IdbSaveGallery ==
    /\ \E gallery \in SmallGalleries(now) :
         /\ GalleryPutFits(galleryStore, imageCache, gallery)
         /\ galleryStore' = StorePut(galleryStore, gallery)
    /\ UNCHANGED <<localStorage, now, lastSave, generation, legacyAtUpgrade, mig, cacheVars,
                   appVars>>

\* IndexedDBStorage.deleteGallery(id): store.delete.
IdbDeleteGallery ==
    /\ \E id \in DOMAIN galleryStore : galleryStore' = StoreDelete(galleryStore, id)
    /\ UNCHANGED <<localStorage, now, lastSave, generation, legacyAtUpgrade, mig, cacheVars,
                   appVars>>

Next == LegacySave \/ LegacyDelete

Spec == InitLegacy /\ [][Next]_vars

NextUpgrade ==
    \/ LegacySaveSmall
    \/ Upgrade
    \/ MigrateStart
    \/ MigratePutOk
    \/ MigratePutFail
    \/ CanvasSave
    \/ LoadGalleries
    \/ GalleriesLoaded

SpecUpgrade == InitUpgrade /\ [][NextUpgrade]_vars

InitCache ==
    /\ localStorage = EmptyStorage
    /\ now = T0
    /\ lastSave = NoSave
    /\ generation = "indexed"
    /\ legacyAtUpgrade = {}
    /\ galleryStore = EmptyStorage
    /\ mig = NoMigration
    /\ imageCache \in EarlierCaches
    /\ task = [t \in Tasks |-> IdleTask]
    /\ lastSweep = NoSweep
    /\ browser = Unmounted
    /\ InitDB
    /\ InitEditor
    /\ upload = NoUpload
    /\ NoResize /\ NoKeys /\ NoUsage

NextCache ==
    \/ \E t \in Tasks :
          \/ StartProcess(t)
          \/ Lookup(t)
          \/ ResizeOk(t)
          \/ ResizeFail(t)
          \/ PutFirst(t)
          \/ SweepAfterFailure(t)
          \/ PutRetry(t)
    \/ StartupSweep
    \/ ManualClearAll
    \/ Tick

SpecCache == InitCache /\ [][NextCache]_vars

\* ------------------------------------------------------------------------
\* Properties
\* ------------------------------------------------------------------------
InitOpen == FreshStores /\ browser = Unmounted /\ InitDB /\ InitEditor /\ upload = NoUpload /\ NoResize /\ NoKeys /\ NoUsage

NextOpen ==
    \/ \E c \in Callers : CallStoreOperation(c) \/ ResumeStoreOperation(c)
    \/ OpenSuccess
    \/ OpenError

SpecOpen == InitOpen /\ [][NextOpen]_vars

InitCanvas == FreshStores /\ browser = Unmounted /\ InitDB /\ InitEditor /\ upload = NoUpload /\ NoResize /\ NoKeys /\ NoUsage

NextCanvas ==
    \/ Edit
    \/ Render
    \/ AutoSaveTimerFires
    \/ ManualSave
    \/ SaveSucceeds
    \/ SaveFails
    \/ Elapse

SpecCanvas == InitCanvas /\ [][NextCanvas]_vars

\* The callbacks of a running batch, which the event loop runs.
UploadSteps ==
    \/ \E t \in Tasks :
          \/ Lookup(t)
          \/ ResizeOk(t)
          \/ ResizeFail(t)
          \/ PutFirst(t)
          \/ SweepAfterFailure(t)
          \/ PutRetry(t)
          \/ ProcessResolved(t)
          \/ FallbackRead(t)
          \/ FallbackReadFails(t)
    \/ BatchDone

NextUpload == UploadBatch \/ UploadSteps

SpecUpload == InitCache /\ [][NextUpload]_vars

\* Every callback that is ready to run is run.
SpecUploadFair == SpecUpload /\ WF_vars(UploadSteps)

InitResize ==
    /\ FreshStores /\ browser = Unmounted /\ InitDB /\ InitEditor /\ upload = NoUpload
    /\ image \in SourceImages
    /\ NoKeys /\ NoUsage
    /\ resized = [status |-> "pending"]

NextResize == ImageLoads \/ ImageFails

SpecResize == InitResize /\ [][NextResize]_vars

InitKeys ==
    /\ FreshStores /\ browser = Unmounted /\ InitDB /\ InitEditor /\ upload = NoUpload
    /\ NoResize /\ NoUsage
    /\ \E a \in KeyFiles, b \in KeyFiles :
          keyed = [pc |-> "files", a |-> a, b |-> b, keyA |-> "", keyB |-> ""]

SpecKeys == InitKeys /\ [][DeriveKeys]_vars

NextUsage ==
    \/ GetStorageUsage
    \/ CountGalleries
    \/ CountCacheEntries
    \/ IdbSaveGallery
    \/ IdbDeleteGallery
    \/ StartupSweep
    \/ ManualClearAll

SpecUsage == InitCache /\ [][NextUsage]_vars

\* Sessions of the localStorage app and sessions of the IndexedDB app.
InitClear == InitLegacy \/ InitCache

NextClear ==
    \/ LegacySave
    \/ LegacyDelete
    \/ generation = "indexed" /\ IdbSaveGallery
    \/ generation = "indexed" /\ IdbDeleteGallery
    \/ generation = "indexed" /\ StartupSweep
    \/ generation = "indexed" /\ ManualClearAll

SpecClear == InitClear /\ [][NextClear]_vars

Remediations == {"clearOld", "clearAll", "optimize"}
Writes == {"write_ok", "write_fail"}
Ladder == <<"clearOld", "clearAll", "optimize">>
RemediationsOf(trace) == SelectSeq(trace, LAMBDA e : e \in Remediations)
CountOf(trace, e) == Cardinality({i \in 1..Len(trace) : trace[i] = e})
CacheKeysOf(ls) == {k \in DOMAIN ls : IsCacheKey(k)}

\* C1: in a legacy save the remediation steps run in the order clear-expired,
\* clear-all, strip-document, each directly followed by one retry of the
\* write, and the fatal error comes only after the retry that follows the
\* strip step has failed.
C1_LadderOrder ==
    lastSave.called =>
        LET tr == lastSave.trace
            rem == RemediationsOf(tr)
        IN /\ Len(rem) <= Len(Ladder)
           /\ rem = SubSeq(Ladder, 1, Len(rem))
           /\ tr[1] \in Writes
           /\ \A i \in 1..Len(tr) :
                tr[i] \in Remediations =>
                    /\ i < Len(tr)
                    /\ tr[i + 1] \in Writes
                    /\ tr[i - 1] = "write_fail"
           /\ \A i \in 1..Len(tr) :
                tr[i] = "fatal" =>
                    /\ i = Len(tr)
                    /\ rem = Ladder
                    /\ tr[i - 1] = "write_fail"
                    /\ tr[i - 2] = "optimize"
           /\ (lastSave.result = "storage_full") <=> (tr[Len(tr)] = "fatal")
           /\ ("clearAll" \in {tr[i] : i \in 1..Len(tr)}) => CacheKeysOf(localStorage) = {}

C1_Witness ==
    /\ lastSave.called
    /\ lastSave.result = "storage_full"
    /\ RemediationsOf(lastSave.trace) = Ladder

\* C2: a legacy save returns normally at the first write attempt that
\* succeeds and runs no remediation after it (the document is stripped only
\* when the strip step ran); it raises the storage-full error exactly when
\* the first attempt and all three retries failed.
C2_ReturnAtFirstSuccess ==
    lastSave.called =>
        LET tr == lastSave.trace IN
        /\ lastSave.result \in {"ok", "storage_full"}
        /\ (lastSave.result = "ok") <=>
                (CountOf(tr, "write_ok") = 1 /\ tr[Len(tr)] = "write_ok")
        /\ (lastSave.result = "storage_full") <=>
                (CountOf(tr, "write_fail") = maxRetries + 1)
        /\ CountOf(tr, "write_ok") <= 1
        /\ \A i \in 1..Len(tr) : tr[i] = "write_ok" => i = Len(tr)
        /\ ("optimize" \notin {tr[i] : i \in 1..Len(tr)}) =>
                lastSave.gallery = lastSave.arg

C2_Witness ==
    /\ lastSave.called
    /\ lastSave.result = "ok"
    /\ lastSave.trace = <<"write_fail", "clearOld", "write_fail", "clearAll", "write_ok">>
    /\ lastSave.gallery = lastSave.arg

\* C3: the legacy listing holds exactly one entry for an id when a document
\* for that id is stored, and none otherwise.
ListEntriesFor(ls, id) ==
    LET items == getGalleryList(ls)
    IN Cardinality({i \in 1..Len(items) : items[i].id = id})

C3_ListingMatchesDocuments ==
    \A id \in GalleryIds :
        ListEntriesFor(localStorage, id) =
            (IF DocKey(id) \in DOMAIN localStorage THEN 1 ELSE 0)

\* C4: every stored document, and its listing entry, has a photoCount equal
\* to the number of photos and a libraryCount equal to the number of library
\* entries.
CountsMatch(g) ==
    /\ g.metadata.photoCount = Len(g.photos)
    /\ g.metadata.libraryCount = Len(g.imageLibrary)

C4_CountsMatchAfterSave ==
    /\ \A id \in GalleryIds :
         DocKey(id) \in DOMAIN localStorage =>
            /\ CountsMatch(localStorage[DocKey(id)].doc)
            /\ \A i \in 1..Len(getGalleryList(localStorage)) :
                 getGalleryList(localStorage)[i].id = id =>
                    getGalleryList(localStorage)[i].metadata.photoCount
                        = Len(localStorage[DocKey(id)].doc.photos)
    /\ \A id \in DOMAIN galleryStore : CountsMatch(galleryStore[id])

\* C9: once migrateFromLocalStorage has completed, every gallery the legacy
\* store had persisted is in the indexed store, and the legacy listing key
\* and the legacy document keys are gone from localStorage.
C9_MigrationMovesLegacyGalleries ==
    (generation = "indexed" /\ mig.pc = "done" /\ mig.outcome = "completed") =>
        /\ \A id \in legacyAtUpgrade :
             \E item \in getAllGalleries(galleryStore) : item.id = id
        /\ GALLERY_LIST_KEY \notin DOMAIN localStorage
        /\ \A id \in GalleryIds : DocKey(id) \notin DOMAIN localStorage

\* C10: a call of migrateFromLocalStorage made after a completed migration,
\* or made when no legacy listing exists, changes neither localStorage nor
\* the indexed store and ends without an error.
C10_MigrateIdempotent ==
    [][(mig' # mig) =>
        /\ mig'.afterCompleted =>
              /\ localStorage' = localStorage
              /\ galleryStore' = galleryStore
              /\ mig'.pc = "done"
              /\ mig'.outcome = "completed"
        /\ (mig.pc # "saving" /\ MIGRATION_LIST_KEY \notin DOMAIN localStorage) =>
              /\ localStorage' = localStorage
              /\ galleryStore' = galleryStore
              /\ mig'.pc = "done"
              /\ mig'.outcome = "completed"]_vars

C10_Witness ==
    /\ mig.pc = "done"
    /\ mig.runs = 2
    /\ mig.afterCompleted
    /\ mig.outcome = "completed"
    /\ mig.copied = 2
    /\ \E id \in DOMAIN galleryStore : galleryStore[id].updatedAt.repr = "Date"

\* C11: in every session the startup migration has finished before the
\* gallery browser issues its read of the indexed store.
C11_MigrationBeforeReads ==
    browser.pc # "unmounted" => browser.migrationAtIssue = "finished"

\* C12: a failed write during migrateFromLocalStorage deletes no legacy key
\* and raises nothing, a later call can still complete the copy, and keys
\* are deleted only once every listed document has been copied.
C12_FailedMigrationKeepsLegacyKeys ==
    [][(mig' # mig) =>
        /\ (mig'.outcome = "failed") =>
              /\ localStorage' = localStorage
              /\ mig'.pc = "done"
        /\ (localStorage' # localStorage) =>
              /\ mig'.outcome = "completed"
              /\ \A i \in 1..Len(mig'.galleryList) :
                    MigrationDocKey(mig'.galleryList[i].id) \in DOMAIN localStorage =>
                        mig'.galleryList[i].id \in DOMAIN galleryStore'
              /\ \A k \in MigrationKeys(mig'.galleryList) : k \notin DOMAIN localStorage']_vars

C12_Witness ==
    /\ mig.runs = 2
    /\ mig.pc = "done"
    /\ mig.outcome = "completed"
    /\ ~mig.afterCompleted
    /\ mig.copied >= 1
    /\ MIGRATION_LIST_KEY \notin DOMAIN localStorage
    /\ "gallery-1" \in DOMAIN galleryStore

\* C13: however many store operations are started before the database
\* handle exists, indexedDB.open is invoked once and every operation awaits
\* the promise of that one open request.
C13_SingleOpen ==
    /\ Len(openRequests) <= 1
    /\ \A c \in Callers : caller[c].pc # "idle" => caller[c].awaits = 1

C13_Witness ==
    /\ \A c \in Callers : caller[c].pc = "awaiting" /\ caller[c].awaits = 1
    /\ openRequests = <<"pending">>

C15_OneSaveInFlight ==
    Len(inFlight) <= 1

\* C16: after an edit made while a save was in flight, once that save has
\* completed successfully and the editor has rendered, either the store
\* holds the editor's content or a further save is scheduled.
C16_DeferredSaveFollows ==
    ( /\ editorLog.editedInFlight
      /\ ~editorLog.failed
      /\ ~editorLog.overlapped
      /\ inFlight = <<>>
      /\ reactState = rendered
      /\ savedContent # rendered.content ) => autoSaveTimer.armed

C18_SaveThenGetRoundTrip ==
    [][(lastSave' # lastSave /\ lastSave'.result = "ok") =>
        LET r == loadGallery(localStorage', lastSave'.arg.id)
        IN /\ r.found
           /\ r.gallery = lastSave'.arg]_vars

\* C19: a cache record is written once: no successful put of the cache
\* write path stores a record under a key that already holds one.
C19_CacheRecordWriteOnce ==
    [][\A t \in Tasks :
        ( /\ Len(task'[t].trace) > Len(task[t].trace)
          /\ task'[t].trace[Len(task'[t].trace)].op = "put"
          /\ task'[t].trace[Len(task'[t].trace)].ok ) =>
            task[t].cachedImage.id \notin DOMAIN imageCache]_vars

\* C20: resizeImage yields a size whose sides are at most the cap; the
\* source size when both sides are within the cap; otherwise the longer
\* side is the cap and the shorter side is within 1px of the proportional
\* value; 4000x3000 becomes 2048x1536 and 200x150.
AtMost(x, m) == x.q < m \/ (x.q = m /\ x.r = 0)
Whole(x, k) == x.q = k /\ x.r = 0
\* |x - n/d| <= 1
WithinOne(x, n, d) ==
    LET p == Quotient(n, d) IN
    \/ x.q = p.q
    \/ x.q = p.q + 1 /\ x.r * p.d <= p.r * x.d
    \/ x.q = p.q - 1 /\ x.r * p.d >= p.r * x.d

C20_ResizeWithinCap ==
    resized.status = "resolved" =>
        LET w == image.width
            h == image.height
            m == image.maxSize
        IN /\ AtMost(resized.width, m) /\ AtMost(resized.height, m)
           /\ resized.canvasWidth <= m /\ resized.canvasHeight <= m
           /\ (w <= m /\ h <= m) =>
                 /\ Whole(resized.width, w) /\ Whole(resized.height, h)
                 /\ resized.canvasWidth = w /\ resized.canvasHeight = h
           /\ ((w > m \/ h > m) /\ w >= h) =>
                 /\ Whole(resized.width, m)
                 /\ WithinOne(resized.height, h * m, w)
                 /\ WithinOne(Quotient(resized.canvasHeight, 1), h * m, w)
           /\ ((w > m \/ h > m) /\ h >= w) =>
                 /\ Whole(resized.height, m)
                 /\ WithinOne(resized.width, w * m, h)
                 /\ WithinOne(Quotient(resized.canvasWidth, 1), w * m, h)
           /\ (w = 4000 /\ h = 3000 /\ m = MAX_IMAGE_SIZE) =>
                 Whole(resized.width, 2048) /\ Whole(resized.height, 1536)
           /\ (w = 4000 /\ h = 3000 /\ m = THUMBNAIL_SIZE) =>
                 Whole(resized.width, 200) /\ Whole(resized.height, 150)

C20_Witness ==
    /\ resized.status = "resolved"
    /\ image = [width |-> 3000, height |-> 4000, maxSize |-> MAX_IMAGE_SIZE]
    /\ resized.canvasWidth = 1536
    /\ resized.canvasHeight = 2048

\* C21: getCacheKey is a function of (name, size, lastModified): equal
\* triples give equal keys, and triples that differ in any of the three
\* components give different keys.
C21_CacheKeyInjective ==
    keyed.pc = "keys" =>
        /\ keyed.keyA = getCacheKey(keyed.a.name, keyed.a.size, keyed.a.lastModified)
        /\ keyed.keyB = getCacheKey(keyed.b.name, keyed.b.size, keyed.b.lastModified)
        /\ (keyed.a = keyed.b) <=> (keyed.keyA = keyed.keyB)

C21_Witness ==
    /\ keyed.pc = "keys"
    /\ keyed.a = [name |-> "a-1", size |-> 2, lastModified |-> -1]
    /\ keyed.b = [name |-> "a-1", size |-> 2, lastModified |-> 1]
    /\ keyed.keyA # keyed.keyB

\* C22: when a manual save fails because storage capacity is exhausted,
\* the editor shows the storage-full message, not the generic one.
C22_StorageFullDistinguished ==
    editorLog.error = "QuotaExceededError" => editorLog.alert = StorageFullAlert

\* C23: a store operation whose open failed is rejected to its caller
\* without the store opening the database again by itself, and an operation
\* called later is a new attempt: it does not await an open request that has
\* already failed.
C23_LaterOperationRetriesOpen ==
    [][\A c \in Callers :
          /\ (caller[c].pc = "awaiting" /\ caller'[c].pc # "awaiting"
               /\ openRequests[caller[c].awaits] = "error") =>
                 (caller'[c].pc = "rejected" /\ openRequests' = openRequests)
          /\ (caller[c].pc = "idle" /\ caller'[c].pc = "awaiting") =>
                 openRequests'[caller'[c].awaits] # "error"]_vars

StoredGalleries(ls) ==
    [k \in ({GALLERY_LIST_KEY} \cup {DocKey(id) : id \in GalleryIds}) \cap DOMAIN ls |-> ls[k]]
OtherEntries(ls, id) ==
    [docs |-> [k \in {DocKey(g) : g \in GalleryIds \ {id}} \cap DOMAIN ls |-> ls[k]],
     list |-> SelectSeq(getGalleryList(ls), LAMBDA g : g.id # id)]

C25_CacheClearKeepsGalleries ==
    [][/\ \A ord \in Perms(LegacyCacheKeys) :
             LET old == clearOldCacheEntries(localStorage, now, ord) IN
             /\ StoredGalleries(old) = StoredGalleries(localStorage)
             /\ StoredGalleries(clearAllCache(old)) = StoredGalleries(localStorage)
             /\ StoredGalleries(clearAllCache(localStorage)) = StoredGalleries(localStorage)
       /\ (lastSave' # lastSave /\ Len(lastSave'.trace) > 1) =>
             OtherEntries(localStorage', lastSave'.arg.id)
                 = OtherEntries(localStorage, lastSave'.arg.id)
       /\ imageCache' # imageCache =>
             (galleryStore' = galleryStore /\ localStorage' = localStorage)]_vars

C25_Witness ==
    /\ lastSave.called
    /\ lastSave.result = "ok"
    /\ \E i \in 1..Len(lastSave.trace) : lastSave.trace[i] = "clearAll"
    /\ \E id \in GalleryIds \ {lastSave.arg.id} : DocKey(id) \in DOMAIN localStorage
    /\ \A k \in DOMAIN localStorage : ~IsCacheKey(k)

\* C26: the legacy cleanup evicts unexpired cache entries only when removing
\* the expired ones does not make room for the write, and what it evicts is
\* the oldest half of the entries left after the expiry pass: no survivor is
\* older than an evicted entry.
UnexpiredKeys(ls, t) == {k \in DOMAIN ls : IsCacheKey(k) /\ ~IsExpiredLegacy(ls[k], t)}

C26_AggressiveEvictionOnlyWhenNeeded ==
    [][(lastSave' # lastSave /\ Len(lastSave'.trace) > 1) =>
          LET afterExpiry == RemoveAll(localStorage, ExpiredKeys(localStorage, now)) IN
          /\ WriteGallery(afterExpiry, lastSave'.arg).ok =>
                 UnexpiredKeys(localStorage, now) \subseteq DOMAIN localStorage'
          /\ \A ord \in Perms(LegacyCacheKeys) :
                 LET cleaned == clearOldCacheEntries(localStorage, now, ord) IN
                 \A kept \in DOMAIN cleaned, gone \in DOMAIN afterExpiry \ DOMAIN cleaned :
                     IsCacheKey(kept) =>
                         afterExpiry[kept].timestamp >= afterExpiry[gone].timestamp]_vars

\* C27: whenever the editor shows no unsaved changes and no save is in
\* flight, the stored document holds the editor's content.
C27_CleanMeansStored ==
    ( /\ ~rendered.hasUnsavedChanges
      /\ ~reactState.hasUnsavedChanges
      /\ inFlight = <<>> ) => savedContent = rendered.content

\* C28: while no edit has been made since the editor was opened, the editor
\* is not dirty, no auto-save is scheduled and none has been started.
C28_OpeningDoesNotSave ==
    ~editorLog.edited =>
        /\ ~rendered.hasUnsavedChanges
        /\ ~autoSaveTimer.armed
        /\ ~editorLog.autoStarted

\* C29: every upload batch that has started completes: isProcessing
\* returns to false and the input is usable again.
C29_UploadBatchTerminates ==
    (\E t \in Tasks : task[t].pc # "idle") ~> upload.done

\* C30: when a legacy save ends with the fatal storage-full error, the
\* document object of the caller is as the caller supplied it.
C30_FailedSaveKeepsCallerDocument ==
    (lastSave.called /\ lastSave.result = "storage_full") =>
        lastSave.gallery = lastSave.arg

FailedPuts(tr) == Cardinality({i \in 1..Len(tr) : tr[i].op = "put" /\ ~tr[i].ok})

\* C5: after a failed cache put the write path sweeps with an age threshold
\* shorter than the normal seven-day expiry and retries; when that retry
\* fails too it clears the whole cache and retries once more.
C5_TightenedSweepThenFullClear ==
    \A t \in Tasks :
        LET tr == task[t].trace IN
        /\ \A i \in 1..Len(tr) :
             tr[i].op = "clearExpired" => tr[i].maxAgeMs < DefaultMaxAgeMs
        /\ (task[t].pc = "done" /\ FailedPuts(tr) >= 2) =>
             \E i \in 1..Len(tr) : tr[i].op = "clearAll"

\* C6: a cache write whose every attempt failed reaches the caller of
\* processImage as a storage-full failure, and no other cache write failure
\* reaches the caller.
C6_FinalFailureEscalated ==
    \A t \in Tasks :
        LET tr == task[t].trace IN
        task[t].pc = "done" =>
            ((Len(tr) > 0 /\ tr[Len(tr)].op = "put" /\ ~tr[Len(tr)].ok)
                <=> task[t].outcome = "storage_full")

\* C7: clearOldCache(maxAgeMs) removes a record exactly when
\* now - timestamp > maxAgeMs; a record with now - timestamp = maxAgeMs stays.
C7_StrictExpiryBoundary ==
    lastSweep.called =>
        \A k \in DOMAIN lastSweep.before :
            (k \notin DOMAIN lastSweep.after) <=>
                (lastSweep.now - lastSweep.before[k].timestamp > lastSweep.maxAgeMs)

\* C8: clearOldCache returns the number of records it deleted, which is the
\* number of records older than now - maxAgeMs, and leaves every other
\* record in place and unchanged.
OldBefore(sw) ==
    {k \in DOMAIN sw.before : sw.before[k].timestamp < sw.now - sw.maxAgeMs}

C8_SweepCountsAndKeeps ==
    lastSweep.called =>
        /\ lastSweep.count = Cardinality((DOMAIN lastSweep.before) \ (DOMAIN lastSweep.after))
        /\ lastSweep.count = Cardinality(OldBefore(lastSweep))
        /\ \A k \in (DOMAIN lastSweep.before) \ OldBefore(lastSweep) :
             k \in DOMAIN lastSweep.after /\ lastSweep.after[k] = lastSweep.before[k]

====
